---- MODULE Spec2Model ----
(***************************************************************************)
(* Model of the cycle-reminder API: the reminder create/update/delete      *)
(* handlers (src/src/routes/reminders.ts) and the due-reminder processor   *)
(* (src/src/scheduler.ts, last revision, lines 235-527).                   *)
(*                                                                         *)
(* Time is counted in whole minutes since the epoch, in UTC (no DST), so   *)
(* 60*1000 ms is 1, an hour is 60 and a day is 1440.  A null timestamp or  *)
(* index is Null, an Invalid Date is NaN.                                  *)
(***************************************************************************)
EXTENDS Integers, Sequences, FiniteSets, TLC

Null == 0 - 1
NaN  == 0 - 2
\* an element of a request's offsets list that is not a number
NotANumber == 0 - 3

\* ------------------------------------------------------------------ bounds
MaxEvents   == 5      \* clock advances, API requests and timer firings in one behaviour
MaxInTick   == 2      \* cap of the counter of invocations past the guard
MaxCalcSteps == 4     \* consecutive calculateNextNotificationAfterSend steps
MaxRawLen   == 3      \* length of a request's notificationOffsets list
MinTimeValue == 0     \* the earliest time value a Date holds; below it a Date is invalid
MaxLogCalls == 3      \* addLogWithTrim calls in one behaviour

\* ------------------------------------------------------- program constants
GRACE_PERIOD    == 10     \* 10 * 60 * 1000 ms
SIX_HOURS_MS    == 360    \* 6 * 60 * 60 * 1000 ms
FIVE_MINUTES_MS == 5      \* 5 * 60 * 1000 ms
RetentionCap    == 10     \* `logsSnapshot.size > 10` of the earlier revision
AuditCap        == 30     \* `snapshot.size > 30` of addLogWithTrim
MinutesPerHour  == 60
MinutesPerDay   == 1440
EpochWeekday    == 4      \* 1970-01-01 was a Thursday (Date.prototype.getDay)

\* ------------------------------------------------------------ input domains
Procs        == {1, 2}
Ids          == {1, 2}
StartNow     == 600                 \* 10:00 on day 0
AdvanceSteps == {1, 10}
NtpOffsets   == {2}                 \* ntpDate - localDate of a successful sync
Servers      == {"A"}               \* req.params.serverId
RuleNone     == [type |-> "none",     hours |-> 0, days |-> {}]
RuleDaily    == [type |-> "daily",    hours |-> 0, days |-> {}]
RuleInterval == [type |-> "interval", hours |-> 1, days |-> {}]
RuleWeekly   == [type |-> "weekly",   hours |-> 0, days |-> {4}]
RuleWeekly0  == [type |-> "weekly",   hours |-> 0, days |-> {}]
RuleInterval2 == [type |-> "interval", hours |-> 2, days |-> {}]
RuleWeekly2  == [type |-> "weekly",   hours |-> 0, days |-> {1, 4}]
RuleInterval0 == [type |-> "interval", hours |-> 0, days |-> {}]
\* request bodies of POST /:serverId and PUT /:id; 540 is 09:00 (already past),
\* 602 is 10:02 (still ahead); the offsets are the list as sent, before the
\* handler's filter and sort
Bodies ==
  { [status |-> "active", recurrence |-> RuleNone,     startTime |-> 602, notificationOffsets |-> <<0, 1>>,
     message |-> "boss", channel |-> "general"],
    [status |-> "active", recurrence |-> RuleNone,     startTime |-> 540, notificationOffsets |-> << >>,
     message |-> "boss", channel |-> "general"],
    [status |-> "active", recurrence |-> RuleInterval, startTime |-> 602, notificationOffsets |-> << >>,
     message |-> "boss", channel |-> "general"],
    [status |-> "active", recurrence |-> RuleDaily,    startTime |-> 602, notificationOffsets |-> <<0, 1>>,
     message |-> "boss", channel |-> "general"],
    [status |-> "active", recurrence |-> RuleWeekly,   startTime |-> 602, notificationOffsets |-> << >>,
     message |-> "boss", channel |-> "general"],
    [status |-> "paused", recurrence |-> RuleWeekly0,  startTime |-> 602, notificationOffsets |-> << >>,
     message |-> "boss", channel |-> "general"],
    [status |-> "paused", recurrence |-> RuleInterval, startTime |-> 540, notificationOffsets |-> << >>,
     message |-> "boss", channel |-> "general"] }

\* inputs of the calculators taken on their own: every rule type, anchors
\* before, at and after the reference times (09:00, 10:00, 10:02 on day 0 and
\* 10:20 on day 2), reference times 10:00 on day 0 and on day 1, and every
\* offsets list up to MaxRawLen over the elements below
CalcRules  == {RuleNone, RuleDaily, RuleInterval, RuleInterval2, RuleWeekly,
               RuleWeekly2, RuleWeekly0, RuleInterval0}
CalcStarts == {540, 600, 602, 3500}
CalcNows   == {600, 2040}
RawElems   == {NotANumber, 0 - 1, 0, 10, 60}
RawOffsets == UNION {[1..n -> RawElems] : n \in 0..MaxRawLen}
CalcBodies ==
  [status : {"active"}, recurrence : CalcRules, startTime : CalcStarts,
   notificationOffsets : RawOffsets, message : {"boss"}, channel : {"general"}]

\* ---------------------------------------------------------- Date arithmetic
\* Date.prototype.getHours()*60 + getMinutes()
TimeOfDay(d) == d % MinutesPerDay
\* Date.prototype.setHours(h, m, 0, 0) with h:m taken from date s
SetHoursFrom(d, s) == (d - TimeOfDay(d)) + TimeOfDay(s)
\* Date.prototype.getDay()
GetDay(d) == ((d \div MinutesPerDay) + EpochWeekday) % 7
\* Date.prototype.setDate(getDate() + 1)
AddDay(d) == d + MinutesPerDay

\* the scan stopping after six days
RECURSIVE ScanWeek_SixDays(_, _, _)
ScanWeek_SixDays(d, days, i) ==
  IF i >= 6 THEN Null
  ELSE IF GetDay(d) \in days THEN d
  ELSE ScanWeek_SixDays(AddDay(d), days, i + 1)

\* the `for (let i = 0; i < 7; i++)` weekday scan of both calculators
RECURSIVE ScanWeek(_, _, _)
ScanWeek(d, days, i) ==
  IF i >= 7 THEN Null
  ELSE IF GetDay(d) \in days THEN d
  ELSE ScanWeek(AddDay(d), days, i + 1)

\* the loop written as `while (nextDate < baseTime)`
RECURSIVE IntervalLoop_Strict(_, _, _)
IntervalLoop_Strict(d, base, hours) ==
  IF d < base THEN IntervalLoop_Strict(d + hours * MinutesPerHour, base, hours) ELSE d

\* the `while (nextDate <= baseTime)` loop of the interval rule
RECURSIVE IntervalLoop(_, _, _)
IntervalLoop(d, base, hours) ==
  IF d <= base THEN IntervalLoop(d + hours * MinutesPerHour, base, hours) ELSE d

NoNext == [nextNotificationTime |-> Null, nextOffsetIndex |-> Null]

\* the daily case without `if (nextDate <= baseTime) setDate(getDate() + 1)`
InitialCycleTime_DailyToday(rule, startDate, baseTime) ==
  CASE rule.type = "none" ->
         IF startDate >= baseTime THEN startDate ELSE Null
    [] rule.type = "daily" ->
         LET d0 == IF baseTime > startDate THEN baseTime ELSE startDate
         IN  SetHoursFrom(d0, startDate)
    [] rule.type = "interval" ->
         IntervalLoop(startDate, baseTime, rule.hours)
    [] rule.type = "weekly" ->
         IF rule.days = {} THEN Null
         ELSE LET d0 == IF baseTime > startDate THEN baseTime ELSE startDate
                  d1 == SetHoursFrom(d0, startDate)
                  d2 == IF d1 <= baseTime THEN AddDay(d1) ELSE d1
              IN  ScanWeek(d2, rule.days, 0)
    [] OTHER -> Null

\* step 1 of calculateNextNotificationInfo: the next cycle time
InitialCycleTime(rule, startDate, baseTime) ==
  CASE rule.type = "none" ->
         IF startDate >= baseTime THEN startDate ELSE Null
    [] rule.type = "daily" ->
         LET d0 == IF baseTime > startDate THEN baseTime ELSE startDate
             d1 == SetHoursFrom(d0, startDate)
         IN  IF d1 <= baseTime THEN AddDay(d1) ELSE d1
    [] rule.type = "interval" ->
         IntervalLoop(startDate, baseTime, rule.hours)
    [] rule.type = "weekly" ->
         IF rule.days = {} THEN Null
         ELSE LET d0 == IF baseTime > startDate THEN baseTime ELSE startDate
                  d1 == SetHoursFrom(d0, startDate)
                  d2 == IF d1 <= baseTime THEN AddDay(d1) ELSE d1
              IN  ScanWeek(d2, rule.days, 0)
    [] OTHER -> Null

\* the loop falling back on the first offset of a cycle one day later
RECURSIVE FirstPendingOffset_NextCycle(_, _, _, _)
FirstPendingOffset_NextCycle(cycle, offsets, baseTime, i) ==
  IF i > Len(offsets)
  THEN [nextNotificationTime |-> (cycle + MinutesPerDay) - offsets[1], nextOffsetIndex |-> 0]
  ELSE IF cycle - offsets[i] > baseTime
       THEN [nextNotificationTime |-> cycle - offsets[i], nextOffsetIndex |-> i - 1]
       ELSE FirstPendingOffset_NextCycle(cycle, offsets, baseTime, i + 1)

\* the comparison written as `>=`
RECURSIVE FirstPendingOffset_NotStrict(_, _, _, _)
FirstPendingOffset_NotStrict(cycle, offsets, baseTime, i) ==
  IF i > Len(offsets) THEN NoNext
  ELSE IF cycle - offsets[i] >= baseTime
       THEN [nextNotificationTime |-> cycle - offsets[i], nextOffsetIndex |-> i - 1]
       ELSE FirstPendingOffset_NotStrict(cycle, offsets, baseTime, i + 1)

\* step 2 of calculateNextNotificationInfo: the first offset still ahead
RECURSIVE FirstPendingOffset(_, _, _, _)
FirstPendingOffset(cycle, offsets, baseTime, i) ==
  IF i > Len(offsets) THEN NoNext
  ELSE IF cycle - offsets[i] > baseTime
       THEN [nextNotificationTime |-> cycle - offsets[i], nextOffsetIndex |-> i - 1]
       ELSE FirstPendingOffset(cycle, offsets, baseTime, i + 1)

\* the `while (nextDate <= baseTime)` loop is left: it is not entered, or
\* each pass moves nextDate forward
LoopEnds(data, baseTime) ==
  \/ data.recurrence.type # "interval"
  \/ data.startTime = NaN
  \/ data.startTime > baseTime
  \/ data.recurrence.hours > 0

calculateNextNotificationInfo(data, baseTime) ==
  IF data.startTime = NaN THEN NoNext
  ELSE LET cycle == InitialCycleTime(data.recurrence, data.startTime, baseTime)
       IN  IF cycle = Null THEN NoNext
           ELSE FirstPendingOffset(cycle, data.notificationOffsets, baseTime, 1)

\* offsets[currentOffsetIndex] * 60 * 1000; an index outside the list reads
\* undefined and the sum is NaN
OffsetAt(offsets, i) == IF i + 1 \in DOMAIN offsets THEN offsets[i + 1] ELSE NaN

\* the interval case without the added hours
NextCycleTime_NoHours(rule, startDate, lastCycleTime) ==
  CASE rule.type = "none" -> Null
    [] rule.type = "daily" ->
         IF lastCycleTime = NaN THEN NaN
         ELSE SetHoursFrom(AddDay(lastCycleTime), startDate)
    [] rule.type = "interval" -> lastCycleTime
    [] rule.type = "weekly" ->
         IF rule.days = {} THEN Null
         ELSE IF lastCycleTime = NaN THEN Null
         ELSE ScanWeek(SetHoursFrom(AddDay(lastCycleTime), startDate), rule.days, 0)
    [] OTHER -> Null

\* the switch of calculateNextNotificationAfterSend: the following cycle
NextCycleTime(rule, startDate, lastCycleTime) ==
  CASE rule.type = "none" -> Null
    [] rule.type = "daily" ->
         IF lastCycleTime = NaN THEN NaN
         ELSE SetHoursFrom(AddDay(lastCycleTime), startDate)
    [] rule.type = "interval" ->
         IF lastCycleTime = NaN THEN NaN
         ELSE lastCycleTime + rule.hours * MinutesPerHour
    [] rule.type = "weekly" ->
         IF rule.days = {} THEN Null
         ELSE IF lastCycleTime = NaN THEN Null   \* getDay() is NaN on every scan step
         ELSE ScanWeek(SetHoursFrom(AddDay(lastCycleTime), startDate), rule.days, 0)
    [] OTHER -> Null

calculateNextNotificationAfterSend(reminder) ==
  IF reminder.startTime = NaN THEN NoNext
  ELSE
    LET offsets == reminder.notificationOffsets
        currentOffsetIndex == IF reminder.nextOffsetIndex = Null THEN 0
                              ELSE reminder.nextOffsetIndex
        nextOffsetIndexInCycle == currentOffsetIndex + 1
        curOff == OffsetAt(offsets, currentOffsetIndex)
        lastCycleTime == IF curOff = NaN THEN NaN
                         ELSE reminder.nextNotificationTime + curOff
    IN  IF nextOffsetIndexInCycle < Len(offsets)
        THEN [nextNotificationTime |-> lastCycleTime - offsets[nextOffsetIndexInCycle + 1],
              nextOffsetIndex      |-> nextOffsetIndexInCycle]
        ELSE LET nextCycleTime ==
                   NextCycleTime(reminder.recurrence, reminder.startTime, lastCycleTime)
             IN  IF nextCycleTime = Null THEN NoNext
                 ELSE IF nextCycleTime = NaN
                      THEN [nextNotificationTime |-> NaN, nextOffsetIndex |-> 0]
                      ELSE [nextNotificationTime |-> nextCycleTime - offsets[1],
                            nextOffsetIndex      |-> 0]

\* ------------------------------------------------- offsets normalisation
\* typeof n === 'number'
IsNumber(n) == n # NotANumber

\* .filter(n => typeof n === 'number' && n >= 0)
RECURSIVE FilterOffsets(_)
FilterOffsets(s) ==
  IF s = << >> THEN << >>
  ELSE IF IsNumber(Head(s)) /\ Head(s) >= 0 THEN <<Head(s)>> \o FilterOffsets(Tail(s))
       ELSE FilterOffsets(Tail(s))

\* .sort((a, b) => b - a): insertion into a descending list, stable
RECURSIVE InsertDesc(_, _)
InsertDesc(x, s) ==
  IF s = << >> THEN <<x>>
  ELSE IF x > Head(s) THEN <<x>> \o s
       ELSE <<Head(s)>> \o InsertDesc(x, Tail(s))

RECURSIVE SortDesc(_)
SortDesc(s) ==
  IF s = << >> THEN << >>
  ELSE InsertDesc(Head(s), SortDesc(Tail(s)))

\* offsets.length > 0 ? offsets : [0]
NormalizeOffsets(raw) ==
  LET offsets == SortDesc(FilterOffsets(raw))
  IN  IF Len(offsets) > 0 THEN offsets ELSE <<0>>

\* ===================================================================== state
VARIABLES
  now,            \* local wall clock, new Date().getTime()
  reminders,      \* the `reminders` collection, by document id
  missed,         \* the `missedNotifications` collection, in order of creation
  isChecking,     \* scheduler.ts:430, one flag per scheduler process
  clockOffsetMs,  \* scheduler.ts:246
  lastSyncTime,   \* scheduler.ts:247
  pc,             \* where each process's checkAndSendReminders invocation stands
  tasks,          \* the per-document async callbacks of snapshot.docs.map in flight
  inTick,         \* per process: invocations between the guard and `finally`
  fired,          \* per process: timer firings so far
  skipped,        \* per process: invocations that returned at the guard
  sent,           \* occurrences delivered by channel.send
  resent,         \* occurrences delivered by channel.send more than once
  advanced,       \* occurrences whose next state a task has written
  events,         \* clock advances, API requests and timer firings so far
  syncFailed,     \* per process: the last synchronizeClock call ended in its catch
  calc,           \* the calculators applied to one request body on their own
  auditLogs,      \* the `auditLogs` collection: its documents, by order of timestamp
  logCalls        \* the addLogWithTrim calls in progress

vars == <<now, reminders, missed, isChecking, clockOffsetMs, lastSyncTime, pc,
          tasks, inTick, fired, skipped, sent, resent, advanced, events,
          syncFailed, calc, auditLogs, logCalls>>

schedVars == <<isChecking, clockOffsetMs, lastSyncTime, pc, tasks, inTick, fired,
               skipped, syncFailed>>
ghostVars == <<sent, resent, advanced>>

\* a slot of the collection that holds no document
NoDoc == [state |-> "free", status |-> "paused",
          serverId |-> "", message |-> "", channel |-> "",
          recurrence |-> [type |-> "none", hours |-> 0, days |-> {}],
          startTime |-> Null, notificationOffsets |-> <<0>>,
          nextNotificationTime |-> Null, nextOffsetIndex |-> Null]

Live(id) == reminders[id].state = "live"

\* the calculators are not being exercised on their own
NoCalc == [phase |-> "off", body |-> CHOOSE b \in Bodies : b.recurrence = RuleDaily,
           baseTime |-> StartNow, cycle |-> Null, doc |-> NoDoc, prev |-> NoDoc,
           steps |-> 0, run |-> Null]

\* one reminder id at one stored nextNotificationTime/nextOffsetIndex
Occurrence(id, r) == <<id, r.nextNotificationTime, r.nextOffsetIndex>>

\* a process that has just started, on an empty reminders collection
InitState ==
  /\ now = StartNow
  /\ reminders = [id \in Ids |-> NoDoc]
  /\ isChecking = [p \in Procs |-> FALSE]
  /\ clockOffsetMs = [p \in Procs |-> 0]
  /\ lastSyncTime = [p \in Procs |-> 0]
  /\ pc = [p \in Procs |-> "idle"]
  /\ tasks = {}
  /\ inTick = [p \in Procs |-> 0]
  /\ fired = [p \in Procs |-> 0]
  /\ skipped = [p \in Procs |-> 0]
  /\ sent = {}
  /\ resent = {}
  /\ advanced = {}
  /\ events = 0
  /\ syncFailed = [p \in Procs |-> FALSE]

Init ==
  /\ InitState
  /\ missed = << >>
  /\ auditLogs = {}
  /\ logCalls = {}
  /\ calc = NoCalc

\* ------------------------------------------------------------------- clock
Advance(d) ==
  /\ events < MaxEvents
  /\ now' = now + d
  /\ events' = events + 1
  /\ UNCHANGED <<auditLogs, logCalls, calc, reminders, missed, schedVars, ghostVars>>

\* ------------------------------------------------------------ API handlers
\* the document both handlers build from the request body
ReminderFromBody(body, serverId, baseTime) ==
  LET data == [recurrence |-> body.recurrence, startTime |-> body.startTime,
               notificationOffsets |-> NormalizeOffsets(body.notificationOffsets)]
      info == calculateNextNotificationInfo(data, baseTime)
  IN  [state |-> "live", status |-> body.status,
       serverId |-> serverId, message |-> body.message, channel |-> body.channel,
       recurrence |-> data.recurrence, startTime |-> data.startTime,
       notificationOffsets |-> data.notificationOffsets,
       nextNotificationTime |-> info.nextNotificationTime,
       nextOffsetIndex |-> info.nextOffsetIndex]

\* remindersCollection.add: a fresh document id
FreshId == CHOOSE id \in Ids : /\ reminders[id].state = "free"
                               /\ \A j \in Ids : j < id => reminders[j].state # "free"

\* router.post('/:serverId')
CreateReminder(body) ==
  /\ events < MaxEvents
  /\ \E id \in Ids : reminders[id].state = "free"
  /\ \E serverId \in Servers :
       reminders' = [reminders EXCEPT ![FreshId] = ReminderFromBody(body, serverId, now)]
  /\ events' = events + 1
  /\ UNCHANGED <<auditLogs, logCalls, calc, now, missed, schedVars, ghostVars>>

\* router.put('/:id'): docRef.update of every body field and the recomputed pair
UpdateReminder(id, body) ==
  /\ events < MaxEvents
  /\ Live(id)
  /\ reminders' = [reminders EXCEPT ![id] = ReminderFromBody(body, @.serverId, now)]
  /\ sent' = {o \in sent : o[1] # id}
  /\ resent' = {o \in resent : o[1] # id}
  /\ advanced' = {o \in advanced : o[1] # id}
  /\ events' = events + 1
  /\ UNCHANGED <<auditLogs, logCalls, calc, now, missed, schedVars>>

\* router.delete('/:id')
DeleteReminder(id) ==
  /\ events < MaxEvents
  /\ Live(id)
  /\ reminders' = [reminders EXCEPT ![id] = [NoDoc EXCEPT !.state = "deleted"]]
  /\ events' = events + 1
  /\ UNCHANGED <<auditLogs, logCalls, calc, now, missed, schedVars, ghostVars>>

\* router.post('/:serverId/daily-summary'): startTime is today at hh:mm
DailySummaryTimes == {601}     \* "10:01"
CreateDailySummary(time) ==
  /\ events < MaxEvents
  /\ \E id \in Ids : reminders[id].state = "free"
  /\ LET body == [status |-> "active",
                  recurrence |-> [type |-> "daily", hours |-> 0, days |-> {}],
                  startTime |-> (now - TimeOfDay(now)) + time,
                  notificationOffsets |-> <<0>>,
                  message |-> "summary", channel |-> "general"]
     IN  \E serverId \in Servers :
           reminders' = [reminders EXCEPT ![FreshId] = ReminderFromBody(body, serverId, now)]
  /\ events' = events + 1
  /\ UNCHANGED <<auditLogs, logCalls, calc, now, missed, schedVars, ghostVars>>

\* ------------------------------------------------- checkAndSendReminders
\* the guard left out: every timer firing starts an invocation
GuardBlocks_NoGuard(p) == FALSE

\* `if (isChecking) return;`
GuardBlocks(p) == isChecking[p]

\* .where('status','==','active').orderBy('nextNotificationTime','asc').limit(1):
\* a null field sorts before every timestamp
ActiveIds == {id \in Ids : Live(id) /\ reminders[id].status = "active"}
FirstActive ==
  CHOOSE id \in ActiveIds :
    \A j \in ActiveIds :
      \/ reminders[id].nextNotificationTime < reminders[j].nextNotificationTime
      \/ /\ reminders[id].nextNotificationTime = reminders[j].nextNotificationTime
         /\ id <= j

\* the decision of lines 440-461
ShouldSync(p) ==
  \/ now - lastSyncTime[p] > SIX_HOURS_MS
  \/ /\ ActiveIds # {}
     /\ reminders[FirstActive].nextNotificationTime # Null
     /\ reminders[FirstActive].nextNotificationTime - now < FIVE_MINUTES_MS

\* the timer fires while the previous invocation is still running: lines 433-436
TickSkip(p) ==
  /\ events < MaxEvents
  /\ GuardBlocks(p)
  /\ fired' = [fired EXCEPT ![p] = @ + 1]
  /\ events' = events + 1
  /\ skipped' = [skipped EXCEPT ![p] = @ + 1]
  /\ UNCHANGED <<auditLogs, logCalls, calc, syncFailed, now, reminders, missed, isChecking, clockOffsetMs, lastSyncTime,
                 pc, tasks, inTick, ghostVars>>

\* the timer fires: lines 433-461, up to the await of synchronizeClock or of the due query
TickStart(p) ==
  /\ events < MaxEvents
  /\ ~GuardBlocks(p)
  /\ inTick[p] < MaxInTick
  /\ fired' = [fired EXCEPT ![p] = @ + 1]
  /\ events' = events + 1
  /\ isChecking' = [isChecking EXCEPT ![p] = TRUE]
  /\ inTick' = [inTick EXCEPT ![p] = @ + 1]
  /\ pc' = [pc EXCEPT ![p] = IF ShouldSync(p) THEN "sync" ELSE "query"]
  /\ UNCHANGED <<auditLogs, logCalls, calc, syncFailed, now, reminders, missed, clockOffsetMs, lastSyncTime, tasks,
                 skipped, ghostVars>>

\* synchronizeClock resolves: lines 251-267
SyncOk(p, off) ==
  /\ pc[p] = "sync"
  /\ clockOffsetMs' = [clockOffsetMs EXCEPT ![p] = off]
  /\ lastSyncTime' = [lastSyncTime EXCEPT ![p] = now]
  /\ syncFailed' = [syncFailed EXCEPT ![p] = FALSE]
  /\ pc' = [pc EXCEPT ![p] = "query"]
  /\ UNCHANGED <<auditLogs, logCalls, calc, now, reminders, missed, isChecking, tasks, inTick, fired,
                 skipped, ghostVars, events>>

\* the catch without `clockOffsetMs = 0`
SyncFail_KeepOffset(p) ==
  /\ pc[p] = "sync"
  /\ UNCHANGED clockOffsetMs
  /\ syncFailed' = [syncFailed EXCEPT ![p] = TRUE]
  /\ pc' = [pc EXCEPT ![p] = "query"]
  /\ UNCHANGED <<auditLogs, logCalls, calc, now, reminders, missed, isChecking, lastSyncTime, tasks, inTick,
                 fired, skipped, ghostVars, events>>

\* synchronizeClock ends in its catch: lines 263-266
SyncFail(p) ==
  /\ pc[p] = "sync"
  /\ clockOffsetMs' = [clockOffsetMs EXCEPT ![p] = 0]
  /\ syncFailed' = [syncFailed EXCEPT ![p] = TRUE]
  /\ pc' = [pc EXCEPT ![p] = "query"]
  /\ UNCHANGED <<auditLogs, logCalls, calc, now, reminders, missed, isChecking, lastSyncTime, tasks, inTick,
                 fired, skipped, ghostVars, events>>

\* getCorrectedDate
getCorrectedDate(p) == now + clockOffsetMs[p]

\* the query without its nextNotificationTime filter
DueIds_AnyTime(correctedNow) ==
  {id \in Ids : /\ Live(id)
                /\ reminders[id].status = "active"
                /\ reminders[id].nextNotificationTime # Null}

\* .where('status','==','active').where('nextNotificationTime','<=',correctedNow)
DueIds(correctedNow) ==
  {id \in Ids : /\ Live(id)
                /\ reminders[id].status = "active"
                /\ reminders[id].nextNotificationTime # Null
                /\ reminders[id].nextNotificationTime <= correctedNow}

\* the comparison written as `<=`
OnTime_Inclusive(missedBy) == missedBy <= GRACE_PERIOD

\* `missedBy < GRACE_PERIOD`
OnTime(missedBy) == missedBy < GRACE_PERIOD

\* the callback of snapshot.docs.map up to its first await (lines 480-488)
NewTask(p, id, correctedNow) ==
  LET reminder == reminders[id]
      missedBy == correctedNow - reminder.nextNotificationTime
  IN  [proc |-> p, id |-> id, orphan |-> FALSE, reminder |-> reminder,
       missedBy |-> missedBy, result |-> "none",
       at |-> IF OnTime(missedBy) THEN "send" ELSE "miss"]

\* the `finally` of an invocation
EndTick(p) ==
  /\ isChecking' = [isChecking EXCEPT ![p] = FALSE]
  /\ inTick' = [inTick EXCEPT ![p] = IF @ > 0 THEN @ - 1 ELSE 0]
  /\ pc' = [pc EXCEPT ![p] = "idle"]

\* the early return of lines 472-475 without `isChecking = false`
DueQuery_FlagLeftSet(p) ==
  /\ pc[p] = "query"
  /\ LET correctedNow == getCorrectedDate(p)
         due == DueIds(correctedNow)
     IN  IF due = {}
         THEN /\ pc' = [pc EXCEPT ![p] = "idle"]
              /\ UNCHANGED <<tasks, isChecking, inTick>>
         ELSE /\ tasks' = tasks \cup {NewTask(p, id, correctedNow) : id \in due}
              /\ pc' = [pc EXCEPT ![p] = "await"]
              /\ UNCHANGED <<isChecking, inTick>>
  /\ UNCHANGED <<auditLogs, logCalls, calc, syncFailed, now, reminders, missed, clockOffsetMs, lastSyncTime, fired, skipped,
                 ghostVars, events>>

\* lines 466-479: the due query and the start of every callback
DueQuery(p) ==
  /\ pc[p] = "query"
  /\ LET correctedNow == getCorrectedDate(p)
         due == DueIds(correctedNow)
     IN  IF due = {}
         THEN /\ EndTick(p)
              /\ UNCHANGED tasks
         ELSE /\ tasks' = tasks \cup {NewTask(p, id, correctedNow) : id \in due}
              /\ pc' = [pc EXCEPT ![p] = "await"]
              /\ UNCHANGED <<isChecking, inTick>>
  /\ UNCHANGED <<auditLogs, logCalls, calc, syncFailed, now, reminders, missed, clockOffsetMs, lastSyncTime, fired, skipped,
                 ghostVars, events>>

\* the outcomes of sendMessage (lines 359-428): the message went out, the
\* channel was not found (or the message was blank), fetch/send threw
SendOutcomes == {"sent", "channelNotFound", "sendError"}

\* sendMessage catches every error: the callback always goes on to line 497
AfterSendMessage(outcome) == "write"

CurrentTasks(p) == {t \in tasks : t.proc = p /\ ~t.orphan}

\* a callback has returned: Promise.all resolves once none is left
TaskResolved(t) ==
  /\ tasks' = tasks \ {t}
  /\ IF ~t.orphan /\ CurrentTasks(t.proc) = {t}
     THEN EndTick(t.proc)
     ELSE UNCHANGED <<isChecking, inTick, pc>>

\* the rejection of one callback taking the tick's other callbacks down with it
TaskRejected_CancelsSiblings(t) ==
  IF t.orphan
  THEN /\ tasks' = tasks \ {t}
       /\ UNCHANGED <<isChecking, inTick, pc>>
  ELSE /\ tasks' = {u \in tasks : u.proc # t.proc}
       /\ EndTick(t.proc)

\* a callback has thrown: Promise.all rejects at once, `finally` runs, and the
\* callbacks still in flight go on without being awaited
TaskRejected(t) ==
  IF t.orphan
  THEN /\ tasks' = tasks \ {t}
       /\ UNCHANGED <<isChecking, inTick, pc>>
  ELSE /\ tasks' = {IF u.proc = t.proc THEN [u EXCEPT !.orphan = TRUE] ELSE u :
                      u \in tasks \ {t}}
       /\ EndTick(t.proc)

\* `await sendMessage(reminder)`, line 485
Dispatch(t, outcome) ==
  /\ t \in tasks
  /\ t.at = "send"
  /\ LET occ == Occurrence(t.id, t.reminder)
     IN  IF outcome = "sent"
         THEN /\ sent' = sent \cup {occ}
              /\ resent' = IF occ \in sent THEN resent \cup {occ} ELSE resent
         ELSE UNCHANGED <<sent, resent>>
  /\ IF AfterSendMessage(outcome) = "write"
     THEN /\ tasks' = (tasks \ {t}) \cup {[t EXCEPT !.at = "write", !.result = outcome]}
          /\ UNCHANGED <<isChecking, inTick, pc>>
     ELSE TaskRejected(t)
  /\ UNCHANGED <<auditLogs, logCalls, calc, syncFailed, now, reminders, missed, clockOffsetMs, lastSyncTime, fired, skipped,
                 advanced, events>>

\* `await missedNotificationsCollection.add(...)`, lines 488-494
MissedAdd(t) ==
  /\ t \in tasks
  /\ t.at = "miss"
  /\ missed' = Append(missed, [reminderId |-> t.id,
                               serverId |-> t.reminder.serverId,
                               reminderMessage |-> t.reminder.message,
                               missedAt |-> t.reminder.nextNotificationTime,
                               channelName |-> t.reminder.channel,
                               acknowledged |-> FALSE])
  /\ tasks' = (tasks \ {t}) \cup {[t EXCEPT !.at = "write", !.result = "missed"]}
  /\ UNCHANGED <<auditLogs, logCalls, calc, syncFailed, now, reminders, isChecking, clockOffsetMs, lastSyncTime, pc,
                 inTick, fired, skipped, ghostVars, events>>

\* the update of line 516 without the status field
NextState_KeepStatus(doc, reminder) ==
  LET next == calculateNextNotificationAfterSend(reminder)
  IN  IF next.nextNotificationTime # Null
      THEN [doc EXCEPT !.nextNotificationTime = next.nextNotificationTime,
                       !.nextOffsetIndex = next.nextOffsetIndex,
                       !.startTime = IF reminder.recurrence.type = "interval"
                                     THEN reminder.nextNotificationTime ELSE @]
      ELSE [doc EXCEPT !.nextNotificationTime = Null,
                       !.nextOffsetIndex = Null]

\* the document after the doc.ref.update of lines 499-517
NextState(doc, reminder) ==
  LET next == calculateNextNotificationAfterSend(reminder)
  IN  IF next.nextNotificationTime # Null
      THEN [doc EXCEPT !.nextNotificationTime = next.nextNotificationTime,
                       !.nextOffsetIndex = next.nextOffsetIndex,
                       !.startTime = IF reminder.recurrence.type = "interval"
                                     THEN reminder.nextNotificationTime ELSE @]
      ELSE [doc EXCEPT !.status = "paused",
                       !.nextNotificationTime = Null,
                       !.nextOffsetIndex = Null]

\* update() rejects when the document is gone or a field is an Invalid Date
UpdateFails(t) ==
  \/ ~Live(t.id)
  \/ calculateNextNotificationAfterSend(t.reminder).nextNotificationTime = NaN

\* lines 497-517: compute the next state from the snapshot and write it
WriteNext(t) ==
  /\ t \in tasks
  /\ t.at = "write"
  /\ ~UpdateFails(t)
  /\ reminders' = [reminders EXCEPT ![t.id] = NextState(@, t.reminder)]
  /\ advanced' = advanced \cup {Occurrence(t.id, t.reminder)}
  /\ TaskResolved(t)
  /\ UNCHANGED <<auditLogs, logCalls, calc, syncFailed, now, missed, clockOffsetMs, lastSyncTime, fired, skipped, sent,
                 resent, events>>

WriteThrows(t) ==
  /\ t \in tasks
  /\ t.at = "write"
  /\ UpdateFails(t)
  /\ TaskRejected(t)
  /\ UNCHANGED <<auditLogs, logCalls, calc, syncFailed, now, reminders, missed, clockOffsetMs, lastSyncTime, fired, skipped,
                 ghostVars, events>>

\* ------------------------------------------------------------ specification
ApiStep ==
  \/ \E body \in Bodies : CreateReminder(body)
  \/ \E id \in Ids, body \in Bodies : UpdateReminder(id, body)
  \/ \E id \in Ids : DeleteReminder(id)
  \/ \E time \in DailySummaryTimes : CreateDailySummary(time)

SchedulerStep(p) ==
  \/ TickSkip(p)
  \/ TickStart(p)
  \/ \E off \in NtpOffsets : SyncOk(p, off)
  \/ SyncFail(p)
  \/ DueQuery(p)

TaskStep ==
  \/ \E t \in tasks, outcome \in SendOutcomes : Dispatch(t, outcome)
  \/ \E t \in tasks : MissedAdd(t)
  \/ \E t \in tasks : WriteNext(t)
  \/ \E t \in tasks : WriteThrows(t)

Next ==
  \/ \E d \in AdvanceSteps : Advance(d)
  \/ ApiStep
  \/ SchedulerStep(1)
  \/ TaskStep

\* one scheduler process and the API
Spec == Init /\ [][Next]_vars

\* every await of an invocation settles: the NTP request answers or fails,
\* the storage calls and sendMessage return
AwaitsSettle ==
  /\ WF_vars((\E off \in NtpOffsets : SyncOk(1, off)) \/ SyncFail(1))
  /\ WF_vars(DueQuery(1))
  /\ WF_vars(TaskStep)

\* one scheduler process; reminders are created and deleted, not edited
NextLive ==
  \/ \E d \in AdvanceSteps : Advance(d)
  \/ \E body \in Bodies : CreateReminder(body)
  \/ \E id \in Ids : DeleteReminder(id)
  \/ SchedulerStep(1)
  \/ TaskStep

SpecLive == Init /\ [][NextLive]_vars /\ AwaitsSettle

\* ------------------------------------------- the calculators on their own
progVars == <<now, reminders, missed, schedVars, ghostVars, events, auditLogs, logCalls>>

\* the handler is given a body on which calculateNextNotificationInfo returns
InitCalc ==
  /\ InitState
  /\ missed = << >>
  /\ auditLogs = {}
  /\ logCalls = {}
  /\ calc \in {c \in [phase : {"input"}, body : CalcBodies, baseTime : CalcNows,
                         cycle : {Null}, doc : {NoDoc}, prev : {NoDoc}, steps : {0},
                         run : {Null}] : LoopEnds(c.body, c.baseTime)}

\* the document router.post builds from the body at baseTime (lines 149-167),
\* with the cycle time calculateNextNotificationInfo found on the way
BuildDocument ==
  /\ calc.phase = "input"
  /\ \E serverId \in Servers :
       calc' = [calc EXCEPT
                  !.phase = "built",
                  !.cycle = InitialCycleTime(calc.body.recurrence, calc.body.startTime,
                                             calc.baseTime),
                  !.doc = ReminderFromBody(calc.body, serverId, calc.baseTime)]
  /\ UNCHANGED progVars

\* one processing of the document's current occurrence: the write of lines
\* 497-517 applied to the document itself; run counts the steps made since
\* the document was last at offset index 0
AfterSendStep ==
  /\ calc.phase = "built"
  /\ calc.doc.nextNotificationTime # Null
  /\ calc.steps < MaxCalcSteps
  /\ calc' = [calc EXCEPT !.prev = calc.doc,
                          !.doc = NextState(calc.doc, calc.doc),
                          !.steps = @ + 1,
                          !.run = IF calc.doc.nextOffsetIndex = 0 THEN 1
                                  ELSE IF @ = Null THEN Null ELSE @ + 1]
  /\ UNCHANGED progVars

NextCalc == BuildDocument \/ AfterSendStep

SpecCalc == InitCalc /\ [][NextCalc]_vars

\* ------------------------ the interval loop of calculateNextNotificationInfo
\* recurrence.hours as sent: negative, zero, positive or not a number
LoopHours == {0 - 1, 0, 1, 2, NotANumber}
LoopBodies ==
  [status : {"active"},
   recurrence : {[type |-> "interval", hours |-> h, days |-> {}] : h \in LoopHours},
   startTime : CalcStarts, notificationOffsets : {<< >>, <<0, 10>>},
   message : {"boss"}, channel : {"general"}]

\* router.post has called calculateNextNotificationInfo and the interval case
\* has made `nextDate = new Date(startDate)` (calc.cycle holds nextDate)
InitLoop ==
  /\ InitState
  /\ missed = << >>
  /\ auditLogs = {}
  /\ logCalls = {}
  /\ calc \in {[NoCalc EXCEPT !.phase = "loop", !.body = b, !.baseTime = n,
                               !.cycle = b.startTime] :
                 b \in LoopBodies, n \in CalcNows}

\* `nextDate <= baseTime`: false on an Invalid Date
LoopCond(d, baseTime) == d # NaN /\ d <= baseTime

\* nextDate.setHours(nextDate.getHours() + hours): an Invalid Date when hours
\* is not a number or the result leaves the range of time values
AddHours(d, hours) ==
  IF hours = NotANumber THEN NaN
  ELSE IF d + hours * MinutesPerHour < MinTimeValue THEN NaN
       ELSE d + hours * MinutesPerHour

\* one pass of the while loop
LoopPass ==
  /\ calc.phase = "loop"
  /\ LoopCond(calc.cycle, calc.baseTime)
  /\ calc' = [calc EXCEPT !.cycle = AddHours(@, calc.body.recurrence.hours)]
  /\ UNCHANGED progVars

\* the loop is left: the offsets are tried on the cycle time and router.post
\* stores the document and responds
LoopExit ==
  /\ calc.phase = "loop"
  /\ ~LoopCond(calc.cycle, calc.baseTime)
  /\ LET offsets == NormalizeOffsets(calc.body.notificationOffsets)
         info == IF calc.cycle = NaN THEN NoNext
                 ELSE FirstPendingOffset(calc.cycle, offsets, calc.baseTime, 1)
     IN  \E serverId \in Servers :
           calc' = [calc EXCEPT
                      !.phase = "built",
                      !.doc = [state |-> "live", status |-> calc.body.status,
                               serverId |-> serverId, message |-> calc.body.message,
                               channel |-> calc.body.channel,
                               recurrence |-> calc.body.recurrence,
                               startTime |-> calc.body.startTime,
                               notificationOffsets |-> offsets,
                               nextNotificationTime |-> info.nextNotificationTime,
                               nextOffsetIndex |-> info.nextOffsetIndex]]
  /\ UNCHANGED progVars

NextLoop == LoopPass \/ LoopExit

SpecLoop == InitLoop /\ [][NextLoop]_vars

\* ------------------------------------ the write token of the API handlers
\* the servers a write token or a route can name
AuthServers == {"A", "B"}
\* the x-write-token header: a token signed for one server, one that does not
\* verify, or none
Tokens == AuthServers \cup {"invalid", "missing"}
\* a request body with a serverId field of its own ("" when it has none)
AuthBodies ==
  {[status |-> b.status, recurrence |-> b.recurrence, startTime |-> b.startTime,
    notificationOffsets |-> b.notificationOffsets, message |-> b.message,
    channel |-> b.channel, serverId |-> srv] :
     b \in {c \in Bodies : c.status = "active" /\ c.startTime = 602
                           /\ c.recurrence.type \in {"none", "interval"}},
     srv \in AuthServers \cup {""}}

\* protectWrite on a route with :id (lines 46-56) or with :serverId (57-60)
WriteAllowedOnId(token, id) ==
  token \in AuthServers /\ Live(id) /\ reminders[id].serverId = token
WriteAllowedOnServer(token, serverId) ==
  token \in AuthServers /\ serverId = token

\* a request that protectWrite answers with 401, 403 or 404
Rejected ==
  /\ events' = events + 1
  /\ UNCHANGED <<auditLogs, logCalls, calc, now, reminders, missed, schedVars, ghostVars>>

\* POST /:serverId: `serverId: serverId` comes after the spread of the body
AuthPost(token, serverId, body) ==
  /\ events < MaxEvents
  /\ \E id \in Ids : reminders[id].state = "free"
  /\ IF WriteAllowedOnServer(token, serverId)
     THEN /\ reminders' = [reminders EXCEPT
                             ![FreshId] = ReminderFromBody(body, serverId, now)]
          /\ events' = events + 1
          /\ UNCHANGED <<auditLogs, logCalls, calc, now, missed, schedVars, ghostVars>>
     ELSE Rejected

\* PUT /:id: docRef.update({...req.body, ...}) writes every field of the body,
\* a serverId field included
AuthPut(token, id, body) ==
  /\ events < MaxEvents
  /\ IF WriteAllowedOnId(token, id)
     THEN /\ reminders' =
               [reminders EXCEPT
                  ![id] = ReminderFromBody(body,
                                           IF body.serverId = "" THEN @.serverId
                                           ELSE body.serverId,
                                           now)]
          /\ events' = events + 1
          /\ UNCHANGED <<auditLogs, logCalls, calc, now, missed, schedVars, ghostVars>>
     ELSE Rejected

\* DELETE /:id
AuthDelete(token, id) ==
  /\ events < MaxEvents
  /\ IF WriteAllowedOnId(token, id)
     THEN /\ reminders' = [reminders EXCEPT ![id] = [NoDoc EXCEPT !.state = "deleted"]]
          /\ events' = events + 1
          /\ UNCHANGED <<auditLogs, logCalls, calc, now, missed, schedVars, ghostVars>>
     ELSE Rejected

NextAuth ==
  \/ \E d \in AdvanceSteps : Advance(d)
  \/ \E token \in Tokens, serverId \in AuthServers, body \in AuthBodies :
       AuthPost(token, serverId, body)
  \/ \E token \in Tokens, id \in Ids, body \in AuthBodies : AuthPut(token, id, body)
  \/ \E token \in Tokens, id \in Ids : AuthDelete(token, id)

\* the API on its own, with callers of two servers
SpecAuth == Init /\ [][NextAuth]_vars

\* ----------------------------------------------- the audit log and its trim
\* the collection after AuditCap requests handled one after the other; a
\* document is named by the rank of its timestamp
FullAudit == 1..AuditCap

InitAudit ==
  /\ InitState
  /\ missed = << >>
  /\ calc = NoCalc
  /\ auditLogs = FullAudit
  /\ logCalls = {}

\* the audit log on its own leaves the rest of the state alone
AuditFrame == UNCHANGED <<calc, now, reminders, missed, schedVars, ghostVars, events>>

\* the document with the latest timestamp
Newest(docs) == CHOOSE m \in docs : \A d \in docs : d <= m

\* the last document of the snapshot ordered by timestamp, latest first
Oldest(docs) == CHOOSE d \in docs : \A e \in docs : d <= e

\* a create, update or delete handler calls addLogWithTrim after its storage
\* write (lines 172, 218, 249): `await auditLogsCollection.add(...)`
LogAdd ==
  LET doc == 1 + Newest(auditLogs \cup {AuditCap})
  IN  /\ doc <= AuditCap + MaxLogCalls
      /\ auditLogs' = auditLogs \cup {doc}
      /\ logCalls' = logCalls \cup {[doc |-> doc, at |-> "get", size |-> 0, oldest |-> 0]}
      /\ AuditFrame

\* `await auditLogsCollection.orderBy('timestamp', 'desc').get()`
LogGet(c) ==
  /\ c \in logCalls
  /\ c.at = "get"
  /\ logCalls' = (logCalls \ {c}) \cup
                   {[c EXCEPT !.at = "trim", !.size = Cardinality(auditLogs),
                              !.oldest = Oldest(auditLogs)]}
  /\ UNCHANGED auditLogs
  /\ AuditFrame

\* `if (snapshot.size > 30) await oldestDoc.ref.delete()`: deleting a document
\* that is already gone changes nothing
LogTrim(c) ==
  /\ c \in logCalls
  /\ c.at = "trim"
  /\ auditLogs' = IF c.size > AuditCap THEN auditLogs \ {c.oldest} ELSE auditLogs
  /\ logCalls' = logCalls \ {c}
  /\ AuditFrame

NextAudit ==
  \/ LogAdd
  \/ \E c \in logCalls : LogGet(c)
  \/ \E c \in logCalls : LogTrim(c)

\* the requests' addLogWithTrim calls, on a collection that is at its cap
SpecAudit == InitAudit /\ [][NextAudit]_vars

\* ------------------------- a server whose missed log is already at the cap
\* RetentionCap records of earlier misses, one a minute, the last one a day ago
FullLog ==
  [i \in 1..RetentionCap |->
     [reminderId |-> 0, serverId |-> CHOOSE srv \in Servers : TRUE,
      reminderMessage |-> "boss", missedAt |-> StartNow - MinutesPerDay - RetentionCap + i,
      channelName |-> "general", acknowledged |-> FALSE]]

InitMissed ==
  /\ InitState
  /\ missed = FullLog
  /\ auditLogs = {}
  /\ logCalls = {}
  /\ calc = NoCalc

SpecMissed == InitMissed /\ [][Next]_vars

StorageEmpty == \A id \in Ids : reminders[id].state = "free"

NextTwo ==
  \/ \E d \in AdvanceSteps : Advance(d)
  \/ \E body \in Bodies : StorageEmpty /\ CreateReminder(body)
  \/ \E id \in Ids : DeleteReminder(id)
  \/ \E p \in Procs : SchedulerStep(p)
  \/ TaskStep

\* two scheduler processes on the same storage, which holds one reminder
SpecTwo == Init /\ [][NextTwo]_vars

\* ----------------- a process started on storage left by earlier requests
\* a daily reminder at 10:02 with one pre-alert 10 minutes ahead, posted at
\* 10:00: the pre-alert of today's cycle has already passed
LateBody ==
  [status |-> "active", recurrence |-> RuleDaily, startTime |-> 602,
   notificationOffsets |-> <<10>>, message |-> "boss", channel |-> "general"]
\* an edit whose startTime does not parse
BadStartBody ==
  [status |-> "active", recurrence |-> RuleDaily, startTime |-> NaN,
   notificationOffsets |-> <<0, 1>>, message |-> "boss", channel |-> "general"]
\* the first request body of Bodies: a one-shot at 10:02 with offsets 1 and 0
EarlierBody ==
  CHOOSE b \in Bodies : b.recurrence = RuleNone /\ b.startTime = 602

\* documents the handlers and the processor leave behind:
\*  - router.post of LateBody at 10:00;
\*  - router.post of EarlierBody, then router.put of BadStartBody while the
\*    callback of the first occurrence was in flight, then that callback's
\*    write of the second occurrence (10:02, index 1)
StoredDocs ==
  { ReminderFromBody(LateBody, CHOOSE srv \in Servers : TRUE, StartNow),
    NextState(ReminderFromBody(BadStartBody, CHOOSE srv \in Servers : TRUE, StartNow),
              ReminderFromBody(EarlierBody, CHOOSE srv \in Servers : TRUE, StartNow)) }

InitStored ==
  /\ now = StartNow
  /\ \E d \in StoredDocs : reminders = [id \in Ids |-> IF id = 1 THEN d ELSE NoDoc]
  /\ isChecking = [p \in Procs |-> FALSE]
  /\ clockOffsetMs = [p \in Procs |-> 0]
  /\ lastSyncTime = [p \in Procs |-> 0]
  /\ pc = [p \in Procs |-> "idle"]
  /\ tasks = {}
  /\ inTick = [p \in Procs |-> 0]
  /\ fired = [p \in Procs |-> 0]
  /\ skipped = [p \in Procs |-> 0]
  /\ sent = {}
  /\ resent = {}
  /\ advanced = {}
  /\ events = 0
  /\ syncFailed = [p \in Procs |-> FALSE]
  /\ missed = << >>
  /\ auditLogs = {}
  /\ logCalls = {}
  /\ calc = NoCalc

\* one scheduler process and the API, on storage that already holds a reminder
SpecStored == InitStored /\ [][Next]_vars

\* ================================================================== claims

\* C1: no due occurrence of a reminder (one reminder id at one stored
\* nextNotificationTime/nextOffsetIndex) is delivered by channel.send more
\* than once, whatever the interleaving of the ticks of the scheduler
\* processes that share the storage.
C1_NoDoubleDispatch == resent = {}

\* C2: of the callbacks that concurrently pick up the same occurrence of the
\* same reminder id, only one goes on to process it: the callbacks in flight
\* on one occurrence all belong to the one tick that claimed it.
C2_ClaimExclusive ==
  \A t, u \in tasks :
    (t.id = u.id /\ Occurrence(t.id, t.reminder) = Occurrence(u.id, u.reminder))
      => (t.proc = u.proc /\ t.orphan = u.orphan)

\* a callback makes a step that dispatches, records a miss or writes
TaskActs(t) ==
  \/ \E outcome \in SendOutcomes : Dispatch(t, outcome)
  \/ MissedAdd(t)
  \/ WriteNext(t)

\* C3: a reminder that the due query returned but whose stored status is no
\* longer active (paused by an edit, or already claimed) is skipped: the
\* processor neither dispatches it, nor records it as missed, nor writes to
\* its document.
C3_SkipIfNotActive ==
  [][\A t \in tasks :
       TaskActs(t) => ~(Live(t.id) /\ reminders[t.id].status # "active")]_vars

\* C4: within one process at most one invocation of checkAndSendReminders is
\* past the isChecking guard; a timer firing that finds the flag set counts
\* as skipped and changes nothing else: no storage read or write, no clock
\* sync, no dispatch, no invocation left pending.
C4_SingleFlight ==
  /\ [](\A p \in Procs : inTick[p] <= 1)
  /\ [][\A p \in Procs :
          (fired'[p] # fired[p] /\ isChecking[p]) =>
             /\ skipped'[p] = skipped[p] + 1
             /\ UNCHANGED <<now, reminders, missed, isChecking, clockOffsetMs,
                            lastSyncTime, pc, tasks, inTick, sent, resent,
                            advanced>>]_vars

\* a timer firing was skipped while the first invocation is still in flight
C4_Witness == skipped[1] = 1 /\ fired[1] = 2 /\ inTick[1] = 1 /\ tasks # {}

\* a callback leaves the position it is at (it is neither still there nor
\* merely orphaned by a sibling's failure)
TaskLeaves(t) == t \notin tasks' /\ [t EXCEPT !.orphan = TRUE] \notin tasks'

\* C5: a processed due reminder with missedBy = correctedNow -
\* nextNotificationTime below GRACE_PERIOD is handed to sendMessage and no
\* MissedNotification is created; with missedBy >= GRACE_PERIOD (exactly
\* GRACE_PERIOD included) nothing is dispatched and one MissedNotification
\* with its missedAt is created.
C5_GraceBoundary ==
  [][\A t \in tasks :
       (t.at \in {"send", "miss"} /\ TaskLeaves(t)) =>
          IF t.missedBy < GRACE_PERIOD
          THEN /\ \E o \in SendOutcomes :
                    [t EXCEPT !.at = "write", !.result = o] \in tasks'
               /\ missed' = missed
          ELSE /\ [t EXCEPT !.at = "write", !.result = "missed"] \in tasks'
               /\ Len(missed') = Len(missed) + 1
               /\ missed'[Len(missed')].missedAt = t.reminder.nextNotificationTime
               /\ sent' = sent /\ resent' = resent]_vars

\* an occurrence observed exactly GRACE_PERIOD late was recorded as missed,
\* and another one observed inside the grace period was delivered
C5_Witness ==
  /\ \E t \in tasks : t.result = "missed" /\ t.missedBy = GRACE_PERIOD
  /\ \E o \in sent : \A i \in DOMAIN missed : missed[i].missedAt # o[2]

\* the callbacks a due query has just started
StartedTasks == {t \in tasks' : t \notin tasks /\ ~t.orphan /\ t.result = "none"}

\* C6: whatever the outcome of the dispatch (sent, channel not found, send
\* error, recorded as missed) the callback goes on to compute and write the
\* next state, and an occurrence whose next state has been written is never
\* picked up again by a later due query (the same occurrence is not retried).
C6_AdvanceNoRetry ==
  [][/\ \A t \in tasks :
          (t.at \in {"send", "miss"} /\ TaskLeaves(t)) =>
             \E r \in SendOutcomes \cup {"missed"} :
                [t EXCEPT !.at = "write", !.result = r] \in tasks'
     /\ \A t \in StartedTasks : Occurrence(t.id, t.reminder) \notin advanced]_vars

\* C7: the only status transitions a processor step performs on a reminder
\* are active -> processing, processing -> active and processing -> paused,
\* and a processor step never changes a paused reminder.
ProcessorTransitions ==
  {<<"active", "processing">>, <<"processing", "active">>, <<"processing", "paused">>}

C7_StatusTransitions ==
  [][events' = events =>
       \A id \in Ids :
         Live(id) =>
           /\ reminders'[id].status # reminders[id].status =>
                <<reminders[id].status, reminders'[id].status>> \in ProcessorTransitions
           /\ reminders[id].status = "paused" => reminders'[id] = reminders[id]]_vars

\* C9: in every reachable storage state a reminder's nextNotificationTime is
\* null if and only if its status is paused.
C9_NullIffPaused ==
  \A id \in Ids :
    Live(id) => ((reminders[id].nextNotificationTime = Null)
                   <=> (reminders[id].status = "paused"))

\* C10: in every reachable storage state a reminder's nextOffsetIndex is null
\* or a valid index into the notificationOffsets stored on that reminder.
C10_ValidOffsetIndex ==
  \A id \in Ids :
    Live(id) =>
      \/ reminders[id].nextOffsetIndex = Null
      \/ /\ 0 <= reminders[id].nextOffsetIndex
         /\ reminders[id].nextOffsetIndex < Len(reminders[id].notificationOffsets)

\* C11: the notificationOffsets list of every document the create and update
\* handlers build is non-empty, holds only non-negative numbers and is sorted
\* strictly descending, whatever list the request supplied.
C11_OffsetsNormalized ==
  calc.phase = "built" =>
    LET o == calc.doc.notificationOffsets
    IN  /\ Len(o) > 0
        /\ \A i \in DOMAIN o : IsNumber(o[i]) /\ o[i] >= 0
        /\ \A i \in 1..(Len(o) - 1) : o[i] > o[i + 1]

\* daily, interval, or weekly with a non-empty day set
Recurring(doc) ==
  \/ doc.recurrence.type \in {"daily", "interval"}
  \/ doc.recurrence.type = "weekly" /\ doc.recurrence.days # {}

\* the shortest distance between two cycle times of a rule
CycleLength(rule) ==
  IF rule.type = "interval" THEN rule.hours * MinutesPerHour ELSE MinutesPerDay

StrictlyDescending(o) == \A i \in 1..(Len(o) - 1) : o[i] > o[i + 1]

\* stored offsets strictly descending and, for an interval rule, hours positive
WellFormed(doc) ==
  /\ StrictlyDescending(doc.notificationOffsets)
  /\ doc.recurrence.type = "interval" => doc.recurrence.hours > 0

\* C12 as stated: for a recurring reminder with n offsets, n consecutive
\* calculateNextNotificationAfterSend steps starting at offset index 0 produce
\* the indices 1, 2, ..., n-1 and then 0, and each step's nextNotificationTime
\* is strictly greater than the one before it, for every rule type and every
\* offsets list (taken here among the strictly descending ones, [60,10,0]
\* included, and with positive hours on an interval rule).
C12_StrictlyIncreasing ==
  (calc.run # Null /\ Recurring(calc.prev) /\ WellFormed(calc.prev)) =>
     /\ calc.doc.nextOffsetIndex = calc.run % Len(calc.prev.notificationOffsets)
     /\ calc.doc.nextNotificationTime > calc.prev.nextNotificationTime

\* C12 amended: the indices are 1, 2, ..., n-1 and then 0; inside a cycle a
\* step's nextNotificationTime is not before the previous one and strictly
\* after it when the two offsets differ; the roll-over step's time is strictly
\* after the previous one when the spread offsets[0] - offsets[n-1] is shorter
\* than the cycle (hours for interval, one day for daily and weekly).
C12_OffsetOrdering ==
  (calc.run # Null /\ Recurring(calc.prev)) =>
     LET o == calc.prev.notificationOffsets
         n == Len(o)
         i == calc.prev.nextOffsetIndex
         before == calc.prev.nextNotificationTime
         after == calc.doc.nextNotificationTime
     IN  /\ calc.doc.nextOffsetIndex = calc.run % n
         /\ IF i + 1 < n
            THEN /\ after >= before
                 /\ o[i + 1] # o[i + 2] => after > before
            ELSE o[1] - o[n] < CycleLength(calc.prev.recurrence) => after > before

\* the three steps of a daily reminder with offsets [60,10,0] from index 0:
\* the third one rolled over to index 0 at a later time
C12_Witness ==
  /\ calc.run = 3
  /\ calc.doc.recurrence.type = "daily"
  /\ calc.doc.notificationOffsets = <<60, 10, 0>>
  /\ calc.doc.nextOffsetIndex = 0
  /\ calc.doc.nextNotificationTime > calc.prev.nextNotificationTime

\* the calendar day of an instant
DayOf(d) == d \div MinutesPerDay

\* C13: for an interval reminder with anchor A and interval H hours and a
\* reference time now, the cycle time T of calculateNextNotificationInfo is
\* strictly after now, T - A is a non-negative whole multiple of H hours, and
\* T is the smallest such instant (T - H hours <= now, or T = A).
C13_IntervalInitial ==
  (calc.phase = "built" /\ calc.body.recurrence.type = "interval") =>
     LET T == calc.cycle
         A == calc.body.startTime
         H == calc.body.recurrence.hours * MinutesPerHour
     IN  /\ T > calc.baseTime
         /\ T >= A
         /\ \E k \in 0..(T - A) : T - A = k * H
         /\ (T - H <= calc.baseTime \/ T = A)

\* an anchor in the past whose multiple falls exactly on now: the cycle time
\* is the next multiple, one interval after now
C13_Witness ==
  /\ calc.phase = "built"
  /\ calc.body.recurrence.type = "interval"
  /\ calc.body.startTime < calc.baseTime
  /\ calc.cycle = calc.baseTime + calc.body.recurrence.hours * MinutesPerHour

\* C14: for a weekly reminder with a non-empty day set the cycle time of
\* calculateNextNotificationInfo falls on a configured weekday at the anchor's
\* time of day, is strictly after now and not before startTime's day, and no
\* earlier day that is strictly after now and not before startTime's day has
\* a configured weekday; with an empty day set there is no occurrence.
C14_WeeklyInitial ==
  (calc.phase = "built" /\ calc.body.recurrence.type = "weekly") =>
     LET T == calc.cycle
         A == calc.body.startTime
         days == calc.body.recurrence.days
     IN  IF days = {}
         THEN T = Null /\ calc.doc.nextNotificationTime = Null
         ELSE /\ T # Null
              /\ GetDay(T) \in days
              /\ TimeOfDay(T) = TimeOfDay(A)
              /\ T > calc.baseTime
              /\ DayOf(T) >= DayOf(A)
              /\ \A k \in 1..14 :
                   LET d == T - k * MinutesPerDay
                   IN  ~(d > calc.baseTime /\ DayOf(d) >= DayOf(A) /\ GetDay(d) \in days)

\* the only configured weekday is six days after the first admissible day
C14_Witness ==
  /\ calc.phase = "built"
  /\ calc.body.recurrence = RuleWeekly
  /\ calc.cycle # Null
  /\ calc.cycle - 6 * MinutesPerDay > calc.baseTime
  /\ DayOf(calc.cycle) - 6 >= DayOf(calc.body.startTime)

\* C15: for a daily reminder with offsets [0], calculateNextNotificationInfo
\* returns offset index 0 and the earliest instant at startTime's hour:minute
\* that is strictly after now and not before startTime's date.
C15_DailyInitial ==
  (/\ calc.phase = "built" /\ calc.steps = 0
   /\ calc.body.recurrence.type = "daily"
   /\ calc.doc.notificationOffsets = <<0>>) =>
     LET T == calc.doc.nextNotificationTime
         A == calc.body.startTime
     IN  /\ calc.doc.nextOffsetIndex = 0
         /\ T # Null
         /\ TimeOfDay(T) = TimeOfDay(A)
         /\ T > calc.baseTime
         /\ DayOf(T) >= DayOf(A)
         /\ ~(T - MinutesPerDay > calc.baseTime /\ DayOf(T - MinutesPerDay) >= DayOf(A))

\* start 09:00 on a day, evaluated at 10:00 on that day: 09:00 on the next day
C15_Witness ==
  /\ calc.phase = "built" /\ calc.steps = 0
  /\ calc.body.recurrence.type = "daily"
  /\ calc.body.startTime = 540 /\ calc.baseTime = 600
  /\ calc.doc.notificationOffsets = <<0>>
  /\ calc.doc.nextNotificationTime = 540 + MinutesPerDay
  /\ calc.doc.nextOffsetIndex = 0

\* C16: a one-shot reminder (recurrence none) created or edited at a time
\* after its startTime gets no next occurrence and is stored paused (status
\* paused, nextNotificationTime null); when startTime >= now its cycle time is
\* startTime itself.
C16_OneShotPast ==
  [][\A id \in Ids :
       (/\ events' # events
        /\ reminders'[id] # reminders[id]
        /\ reminders'[id].state = "live"
        /\ reminders'[id].recurrence.type = "none") =>
          LET r == reminders'[id]
          IN  IF r.startTime < now
              THEN r.status = "paused" /\ r.nextNotificationTime = Null
              ELSE r.nextNotificationTime # Null =>
                     r.nextNotificationTime + r.notificationOffsets[r.nextOffsetIndex + 1]
                       = r.startTime]_vars

\* C17: when calculateNextNotificationAfterSend finds no further occurrence
\* the callback writes status paused, nextNotificationTime null and
\* nextOffsetIndex null; from then on no step of a processor takes the
\* reminder out of paused and no later due query starts a callback for it:
\* only an edit makes it due again.
C17_PauseWhenExhausted ==
  [][/\ \A t \in tasks :
          (/\ t.at = "write" /\ TaskLeaves(t) /\ Live(t.id)
           /\ calculateNextNotificationAfterSend(t.reminder) = NoNext) =>
             /\ reminders'[t.id].status = "paused"
             /\ reminders'[t.id].nextNotificationTime = Null
             /\ reminders'[t.id].nextOffsetIndex = Null
     /\ \A id \in Ids :
          (Live(id) /\ reminders[id].status = "paused"
             /\ reminders'[id].state = "live" /\ reminders'[id].status # "paused") =>
               events' # events
     /\ \A t \in StartedTasks : reminders[t.id].status # "paused"]_vars

\* a one-shot reminder was paused by the processor after its last offset, and
\* a later tick is about to run its due query
C17_Witness ==
  \E id \in Ids :
    /\ Live(id)
    /\ reminders[id].recurrence.type = "none"
    /\ reminders[id].status = "paused"
    /\ reminders[id].nextNotificationTime = Null
    /\ reminders[id].nextOffsetIndex = Null
    /\ \E o \in advanced : o[1] = id
    /\ pc[1] = "query"
    /\ tasks = {}

\* the MissedNotification records of one server
MissedOf(log, serverId) == {i \in DOMAIN log : log[i].serverId = serverId}

\* C18: each time the processor records an occurrence as missed it creates
\* one MissedNotification with acknowledged = false that carries the
\* reminder's serverId, message, missed timestamp and channel name, and when
\* that step has finished the server has at most RetentionCap records.
C18_MissedRecordAndCap ==
  [][\A t \in tasks :
       (t.at = "miss" /\ TaskLeaves(t)) =>
          /\ \E i \in DOMAIN missed' :
               /\ i \notin DOMAIN missed
               /\ missed'[i].serverId = t.reminder.serverId
               /\ missed'[i].reminderMessage = t.reminder.message
               /\ missed'[i].missedAt = t.reminder.nextNotificationTime
               /\ missed'[i].channelName = t.reminder.channel
               /\ missed'[i].acknowledged = FALSE
          /\ Cardinality(MissedOf(missed', t.reminder.serverId)) <= RetentionCap]_vars

\* C19: when a clock synchronisation attempt fails, clockOffsetMs is reset to
\* 0, lastSyncTime is left unchanged and the invocation goes on to its due
\* query, which it runs with the uncorrected local time: the callbacks it
\* starts are those of the reminders due at local now, with missedBy counted
\* from local now.
C19_SyncFailureContinues ==
  [][/\ \A p \in Procs :
          (pc[p] = "sync" /\ pc'[p] # "sync" /\ syncFailed'[p]) =>
             /\ clockOffsetMs'[p] = 0
             /\ lastSyncTime'[p] = lastSyncTime[p]
             /\ pc'[p] = "query"
             /\ isChecking'[p]
     /\ \A p \in Procs :
          (pc[p] = "query" /\ pc'[p] # "query" /\ syncFailed[p]) =>
             /\ {t.id : t \in StartedTasks} = DueIds(now)
             /\ \A t \in StartedTasks :
                  t.proc = p /\ t.missedBy = now - t.reminder.nextNotificationTime]_vars

\* after an earlier successful sync had set a non-zero offset, a failed sync
\* was followed by a due query that started a callback at local time
C19_Witness ==
  /\ syncFailed[1]
  /\ lastSyncTime[1] > 0
  /\ clockOffsetMs[1] = 0
  /\ pc[1] = "await"
  /\ \E t \in tasks : /\ t.proc = 1 /\ ~t.orphan /\ t.result = "none"
                      /\ t.missedBy = now - t.reminder.nextNotificationTime

\* C21: isChecking of a process is cleared only after every per-reminder
\* callback its tick started has finished (completed or failed): no callback
\* is in flight for a process whose flag is clear, and none is left behind by
\* a tick that has ended because a sibling failed.
C21_FlagCoversCallbacks ==
  \A t \in tasks : isChecking[t.proc] /\ ~t.orphan

\* the processor has just written the next state of calc.prev, giving calc.doc
Processed == calc.phase = "built" /\ calc.steps >= 1

\* the occurrence just processed was not the last one of its cycle
WithinCycle(doc) == doc.nextOffsetIndex + 1 < Len(doc.notificationOffsets)

\* cycleBase: the stored notification time plus the offset it was sent at
CycleBase(doc) == doc.nextNotificationTime + doc.notificationOffsets[doc.nextOffsetIndex + 1]

\* C22: when the processor advances a reminder within its cycle
\* (nextOffsetIndex + 1 below the number of offsets) the new
\* nextNotificationTime is cycleBase - offsets[nextOffsetIndex + 1], the new
\* index is nextOffsetIndex + 1, and the stored startTime is left unchanged
\* for every rule type, interval included.  Checked on stored offsets that
\* are strictly descending and on interval rules with positive hours.
C22_WithinCycleAdvance ==
  (Processed /\ WithinCycle(calc.prev) /\ WellFormed(calc.prev)) =>
     /\ calc.doc.nextOffsetIndex = calc.prev.nextOffsetIndex + 1
     /\ calc.doc.nextNotificationTime =
          CycleBase(calc.prev) - calc.prev.notificationOffsets[calc.prev.nextOffsetIndex + 2]
     /\ calc.doc.startTime = calc.prev.startTime

\* C23: when the processor rolls an interval reminder over to its following
\* cycle, the stored startTime becomes exactly cycleBase (the old
\* nextNotificationTime plus offsets[nextOffsetIndex], also when the last
\* offset is not zero); the startTime of a daily, weekly or one-shot reminder
\* is never modified by the processor.  Checked on stored offsets that are
\* strictly descending and on interval rules with positive hours.
C23_AnchorAtRollOver ==
  (Processed /\ WellFormed(calc.prev)) =>
     IF calc.prev.recurrence.type = "interval"
     THEN ~WithinCycle(calc.prev) => calc.doc.startTime = CycleBase(calc.prev)
     ELSE calc.doc.startTime = calc.prev.startTime

\* an active recurring reminder on which calculateNextNotificationInfo found a
\* cycle time but no pending offset: it is stored without a notification time
Unscheduled(id) ==
  /\ Live(id)
  /\ reminders[id].status = "active"
  /\ Recurring(reminders[id])
  /\ reminders[id].startTime # NaN
  /\ reminders[id].nextNotificationTime = Null

\* a poll of process p runs its due query
PollCompletes(p) == pc[p] = "query" /\ pc'[p] # "query"

\* C24: a recurring reminder for which calculateNextNotificationInfo returned
\* no next occurrence because every offset of the upcoming cycle had already
\* passed is picked up by a later poll of the processor, which gives it a
\* notification time in the following cycle: a poll whose due query runs
\* while such a reminder is stored starts a callback for it.
C24_DeferredPickedUp ==
  [][\A p \in Procs, id \in Ids :
       (PollCompletes(p) /\ Unscheduled(id)) => \E t \in StartedTasks : t.id = id]_vars

\* the calculator has been applied to a body whose startTime parses and whose
\* rule has a cycle time after baseTime
InitialComputed == calc.phase = "built" /\ calc.steps = 0 /\ calc.cycle # Null

\* the candidate notification times of the cycle, by offset position
Candidate(i) == calc.cycle - calc.doc.notificationOffsets[i]

\* C25: calculateNextNotificationInfo returns a null nextNotificationTime and
\* a null nextOffsetIndex whenever a cycle time exists but no candidate
\* cycleTime - offsets[i] is strictly after now; it never substitutes a
\* notification of the following cycle.
C25_NullWhenAllPassed ==
  (InitialComputed
     /\ \A i \in DOMAIN calc.doc.notificationOffsets : Candidate(i) <= calc.baseTime) =>
        /\ calc.doc.nextNotificationTime = Null
        /\ calc.doc.nextOffsetIndex = Null

\* a recurring rule with a cycle time ahead whose offsets have all passed
C25_Witness ==
  /\ InitialComputed
  /\ Recurring(calc.doc)
  /\ Len(calc.doc.notificationOffsets) >= 2
  /\ \A i \in DOMAIN calc.doc.notificationOffsets : Candidate(i) <= calc.baseTime
  /\ calc.doc.nextNotificationTime = Null

\* C26: when calculateNextNotificationInfo returns a notification it is
\* (cycleTime - offsets[i], i) for the smallest i whose candidate is strictly
\* after now; with offsets sorted in descending order this is the earliest
\* pre-alert still pending; the returned time is strictly after now.
C26_FirstPending ==
  (InitialComputed /\ calc.doc.nextNotificationTime # Null) =>
     LET o == calc.doc.notificationOffsets
         i == calc.doc.nextOffsetIndex + 1
     IN  /\ i \in DOMAIN o
         /\ calc.doc.nextNotificationTime = Candidate(i)
         /\ calc.doc.nextNotificationTime > calc.baseTime
         /\ \A j \in 1..(i - 1) : Candidate(j) <= calc.baseTime
         /\ \A j \in DOMAIN o :
              Candidate(j) > calc.baseTime => Candidate(j) >= calc.doc.nextNotificationTime

\* the first offset has passed and the second one is returned, ahead of a third
C26_Witness ==
  /\ InitialComputed
  /\ calc.doc.nextOffsetIndex = 1
  /\ Len(calc.doc.notificationOffsets) = 3
  /\ Candidate(1) <= calc.baseTime
  /\ Candidate(3) > calc.doc.nextNotificationTime

\* the processor has just rolled a recurring reminder over to its next cycle
RolledOver == Processed /\ ~WithinCycle(calc.prev) /\ Recurring(calc.prev)

\* Date.prototype.getDay() of a calendar day
WeekdayOf(day) == (day + EpochWeekday) % 7

\* C27: on cycle exhaustion calculateNextNotificationAfterSend derives the
\* next cycle time from cycleBase only: daily gives the day after cycleBase at
\* the anchor's hour:minute, interval gives cycleBase + hours, weekly gives
\* the first day after cycleBase's day (within 7 days) whose weekday is
\* configured, at the anchor's hour:minute; the result is nextCycle -
\* offsets[0] with offset index 0, and the next cycle time is strictly after
\* cycleBase.
C27_RollOverFromCycleBase ==
  RolledOver =>
     LET rule == calc.prev.recurrence
         anchor == calc.prev.startTime
         cycleBase == CycleBase(calc.prev)
         nextCycle == calc.doc.nextNotificationTime + calc.prev.notificationOffsets[1]
     IN  /\ calc.doc.nextNotificationTime # Null
         /\ calc.doc.nextOffsetIndex = 0
         /\ rule.type = "daily" =>
              nextCycle = (DayOf(cycleBase) + 1) * MinutesPerDay + TimeOfDay(anchor)
         /\ rule.type = "interval" =>
              nextCycle = cycleBase + rule.hours * MinutesPerHour
         /\ rule.type = "weekly" =>
              /\ TimeOfDay(nextCycle) = TimeOfDay(anchor)
              /\ WeekdayOf(DayOf(nextCycle)) \in rule.days
              /\ DayOf(nextCycle) \in (DayOf(cycleBase) + 1)..(DayOf(cycleBase) + 7)
              /\ \A day \in (DayOf(cycleBase) + 1)..(DayOf(nextCycle) - 1) :
                   WeekdayOf(day) \notin rule.days
         /\ nextCycle > cycleBase

\* C28: a tick dispatches, records as missed or rewrites only reminders that
\* had status active and nextNotificationTime <= correctedNow when the tick
\* queried storage: the due query starts a callback only for such a document,
\* holding that document as its snapshot, and every dispatch, missed record
\* and write of a processor step belongs to a callback in flight on that
\* reminder; a paused reminder, one with a null nextNotificationTime or one
\* whose nextNotificationTime is later than correctedNow gets no callback.
C28_OnlyDueAtQuery ==
  [][/\ \A t \in StartedTasks :
          /\ Live(t.id)
          /\ t.reminder = reminders[t.id]
          /\ reminders[t.id].status = "active"
          /\ reminders[t.id].nextNotificationTime # Null
          /\ reminders[t.id].nextNotificationTime <= getCorrectedDate(t.proc)
     /\ events' = events =>
          /\ \A id \in Ids :
               reminders'[id] # reminders[id] =>
                  \E t \in tasks \ tasks' : t.id = id /\ t.at = "write"
          /\ \A o \in sent' \ sent :
               \E t \in tasks \ tasks' : t.id = o[1] /\ t.at = "send"
          /\ missed' # missed =>
               \E t \in tasks \ tasks' :
                  /\ t.at = "miss"
                  /\ missed' = Append(missed, missed'[Len(missed')])
                  /\ missed'[Len(missed')].reminderId = t.id]_vars

\* a tick is processing one reminder while another active reminder, whose
\* nextNotificationTime is later than the tick's corrected time, has no callback
C28_Witness ==
  /\ pc[1] = "await"
  /\ \E t \in tasks : t.proc = 1 /\ ~t.orphan /\ t.at = "write" /\ t.result = "sent"
  /\ \E id \in Ids :
       /\ Live(id)
       /\ reminders[id].status = "active"
       /\ reminders[id].nextNotificationTime # Null
       /\ reminders[id].nextNotificationTime > getCorrectedDate(1)
       /\ \A t \in tasks : t.id # id
       /\ \A o \in sent \cup advanced : o[1] # id

\* the document a callback holds has a startTime that does not parse
CorruptSnapshot(t) == t.reminder.startTime = NaN

\* C29: a reminder that matched the due query but whose data is corrupt (an
\* unparseable startTime; a missing or invalid nextNotificationTime cannot
\* match the query) is not dispatched, and is written back with status paused
\* and nextNotificationTime null.
C29_CorruptIsPaused ==
  [][\A t \in tasks :
       CorruptSnapshot(t) =>
          /\ ~(\E outcome \in SendOutcomes : Dispatch(t, outcome))
          /\ WriteNext(t) => /\ reminders'[t.id].status = "paused"
                             /\ reminders'[t.id].nextNotificationTime = Null]_vars

\* C30: a failure while processing one due reminder (dispatch error, invalid
\* data, failing write) does not prevent any other due reminder found by the
\* same tick from being dispatched or recorded as missed and from having its
\* next state written: every callback in flight, also one whose tick has ended
\* on a sibling's failure, can take its next step, and a callback leaves its
\* position only by its own dispatch or missed record (going on to the write)
\* or by its own write, which succeeds unless its own update is rejected.
C30_FailureIsolated ==
  /\ [](\A t \in tasks : ENABLED (TaskActs(t) \/ WriteThrows(t)))
  /\ [][\A t \in tasks :
          t \notin tasks' =>
             \/ [t EXCEPT !.orphan = TRUE] \in tasks'
             \/ /\ t.at \in {"send", "miss"}
                /\ \E r \in SendOutcomes \cup {"missed"} :
                     [t EXCEPT !.at = "write", !.result = r] \in tasks'
             \/ /\ t.at = "write"
                /\ ~UpdateFails(t)
                /\ reminders'[t.id] = NextState(reminders[t.id], t.reminder)
                /\ Occurrence(t.id, t.reminder) \in advanced'
             \/ /\ t.at = "write"
                /\ UpdateFails(t)]_vars

\* the write of one callback was rejected (its document is gone) and the
\* tick has ended, and a sibling has gone on to dispatch its reminder
C30_Witness ==
  /\ \E id \in Ids : reminders[id].state = "deleted"
  /\ pc[1] = "idle" /\ ~isChecking[1]
  /\ \E t \in tasks :
       /\ t.proc = 1 /\ t.orphan
       /\ t.at = "write" /\ t.result = "sent"
       /\ Live(t.id)

\* C31: for each reminder processed in a tick the steps come in the order
\* claim, then dispatch (or missed record), then write of the next state: a
\* callback dispatches or records the miss only on a reminder it has claimed
\* (stored status processing), it writes the next state only after its
\* dispatch or missed record has returned, and once it is at the write it
\* dispatches no more.
C31_ClaimDispatchWrite ==
  [][\A t \in tasks :
       /\ ((\E outcome \in SendOutcomes : Dispatch(t, outcome)) \/ MissedAdd(t)) =>
             (Live(t.id) => reminders[t.id].status = "processing")
       /\ (WriteNext(t) \/ WriteThrows(t)) => t.result # "none"
       /\ t.result # "none" => ~(\E outcome \in SendOutcomes : Dispatch(t, outcome))]_vars

\* the notification times of the active reminders
ActiveTimes ==
  {reminders[id].nextNotificationTime :
     id \in {j \in ActiveIds : reminders[j].nextNotificationTime # Null}}

\* the timer of process p fires and the invocation passes the guard
TickPasses(p) == fired'[p] = fired[p] + 1 /\ ~isChecking[p]

\* C32: a tick attempts a clock synchronisation if and only if more than
\* SIX_HOURS_MS of local time have passed since lastSyncTime or the earliest
\* nextNotificationTime among the active reminders is less than
\* FIVE_MINUTES_MS after local now; a tick that does not attempt it leaves
\* clockOffsetMs and lastSyncTime unchanged.
C32_SyncDecision ==
  [][\A p \in Procs :
       /\ TickPasses(p) =>
            (pc'[p] = "sync" <=>
               \/ now - lastSyncTime[p] > SIX_HOURS_MS
               \/ \E time \in ActiveTimes : time - now < FIVE_MINUTES_MS)
       /\ pc[p] # "sync" =>
            /\ clockOffsetMs'[p] = clockOffsetMs[p]
            /\ lastSyncTime'[p] = lastSyncTime[p]]_vars

\* C33: every tick that passes the isChecking guard eventually clears the
\* flag, on every path (nothing due, normal completion, failed clock sync,
\* storage or dispatch error), so a later timer firing is not skipped for
\* good and due reminders keep being processed while the time source fails.
C33_FlagEventuallyCleared == isChecking[1] ~> ~isChecking[1]

\* the time source has never answered, and the second tick has passed the
\* guard and is processing a due reminder
C33_Witness ==
  /\ syncFailed[1] /\ lastSyncTime[1] = 0
  /\ fired[1] = 2 /\ skipped[1] = 0
  /\ pc[1] = "await"
  /\ \E t \in tasks : t.proc = 1 /\ ~t.orphan

\* C34: calculateNextNotificationInfo terminates for every reminder input,
\* an interval rule whose hours is 0, negative or not a number while
\* startTime <= now included: whenever its while loop is about to make a
\* pass (the loop condition is true), the pass changes nextDate (a pass that
\* leaves nextDate as it was repeats for ever and the handler never responds).
C34_LoopPassAdvances ==
  (calc.phase = "loop" /\ LoopCond(calc.cycle, calc.baseTime)) =>
     AddHours(calc.cycle, calc.body.recurrence.hours) # calc.cycle

\* the document of callback t has been edited since t took its snapshot
EditedSince(t) ==
  /\ Live(t.id)
  /\ \/ reminders[t.id].recurrence # t.reminder.recurrence
     \/ reminders[t.id].notificationOffsets # t.reminder.notificationOffsets

\* the fields the schedule of a document consists of
Schedule(doc) == <<doc.nextNotificationTime, doc.nextOffsetIndex, doc.startTime>>

\* C35: an update (PUT) that commits while a tick is processing the reminder
\* from its pre-edit snapshot is not lost or corrupted: when the callback then
\* writes, the stored nextNotificationTime, nextOffsetIndex and startTime are
\* still the ones derived from the edited recurrence, startTime and
\* notificationOffsets (the ones the PUT stored, or the next state computed
\* from the edited document), and nextOffsetIndex is a valid index into the
\* edited notificationOffsets.
C35_EditNotLost ==
  [][\A t \in tasks :
       (WriteNext(t) /\ EditedSince(t)) =>
          LET edited == reminders[t.id]
              after == reminders'[t.id]
          IN  /\ \/ Schedule(after) = Schedule(edited)
                 \/ Schedule(after) = Schedule(NextState(edited, edited))
              /\ \/ after.nextOffsetIndex = Null
                 \/ after.nextOffsetIndex + 1 \in DOMAIN after.notificationOffsets]_vars

\* the corrected time the tick of callback t read before its due query
CorrectedNowOf(t) == t.reminder.nextNotificationTime + t.missedBy

\* C36: after a tick has processed a due reminder and written a next
\* occurrence, the stored nextNotificationTime is strictly after that tick's
\* correctedNow, so the reminder is not due again at the next tick; also for
\* reminders recorded as missed.
C36_NextAfterCorrectedNow ==
  [][\A t \in tasks :
       (WriteNext(t) /\ reminders'[t.id].nextNotificationTime # Null) =>
          reminders'[t.id].nextNotificationTime > CorrectedNowOf(t)]_vars

\* the reminders of server B are left as they are
OthersUntouched ==
  \A id \in Ids :
    (Live(id) /\ reminders[id].serverId = "B") => reminders'[id] = reminders[id]

\* no document is given or changed to a serverId other than A
StaysOnA ==
  \A id \in Ids :
    reminders'[id] # reminders[id] =>
       (reminders'[id].state = "live" => reminders'[id].serverId = "A")

\* C37: through the create, update and delete endpoints a caller holding a
\* valid write token for server A only never creates, modifies or deletes a
\* reminder whose stored serverId is B and never makes a reminder's stored
\* serverId change from A to B; a request with a missing or invalid write
\* token changes no reminder.
C37_WriteTokenScope ==
  [][/\ \A serverId \in AuthServers, body \in AuthBodies :
          AuthPost("A", serverId, body) => (OthersUntouched /\ StaysOnA)
     /\ \A id \in Ids, body \in AuthBodies :
          AuthPut("A", id, body) => (OthersUntouched /\ StaysOnA)
     /\ \A id \in Ids : AuthDelete("A", id) => OthersUntouched
     /\ \A token \in {"invalid", "missing"} :
          (\/ \E serverId \in AuthServers, body \in AuthBodies :
                AuthPost(token, serverId, body)
           \/ \E id \in Ids, body \in AuthBodies : AuthPut(token, id, body)
           \/ \E id \in Ids : AuthDelete(token, id)) => reminders' = reminders]_vars

\* C38: whenever no addLogWithTrim call is in progress, the auditLogs
\* collection holds at most 30 documents, however the calls of the create,
\* update and delete requests interleave.
C38_AuditLogCapped ==
  logCalls = {} => Cardinality(auditLogs) <= AuditCap

====
